---- MODULE Spec2Model ----
(***************************************************************************)
(* A model of monkey-wrench's EUMETSAT query layer and file validation:    *)
(*   - EumetsatAPI.fetch_products / fetch_product (the polling loop that   *)
(*     drives one Data Tailor customisation per product), and              *)
(*   - EumetsatAPI.query / query_in_batches (the time-window batcher),     *)
(*   - FilesIntegrityValidator (missing and corrupted files),              *)
(*   - Writer / Reader (items written to and read from a text file), and   *)
(*   - TempDirectory (the scoped override of tempfile.tempdir).            *)
(* The remote service is the environment: it changes a job's status on its *)
(* own, between any two reads the poller makes.                            *)
(***************************************************************************)
EXTENDS Integers, Sequences, FiniteSets, TLC

(***************************************************************************)
(* Bounds of the model.                                                    *)
(***************************************************************************)
\* The longest batch of products handed to fetch_products.
MaxBatch == 2
\* Datetimes are the integers 0..MaxT.
MaxT == 4
\* The largest total_results the remote catalog reports for one search.
MaxCount == 1
\* The longest list of file paths handed to verify.
MaxFiles == 2
\* The longest list of items handed to a writer.
MaxItems == 2
\* The most directories tempfile creates in one behaviour.
MaxDirs == 3

Products == {"p1", "p2"}
\* The files on disk, and the sizes in bytes a file can have.
Files == {"a", "b"}
Sizes == {1005, 1010, 1020}
OutputDirectory == "outdir"
\* Python's None, as a value comparable with a path.
None == [none |-> TRUE]

(***************************************************************************)
(* State.                                                                  *)
(***************************************************************************)
VARIABLES
    \* ---- fetch_products / fetch_product ----
    fpc,            \* position of the fetch: idle, submit, read1, read2, read3,
                    \* sleeping, returned, raised
    batch,          \* search_results of the running fetch_products call
    idx,            \* position (1-based) of the product being fetched
    results,        \* the list the comprehension of fetch_products has built
    jobs,           \* the customisations this call created at the remote
    observed,       \* per job: what the poller concluded (history)
    customisation,  \* the local `customisation` of fetch_product (index in jobs)
    writes,         \* log of the files written by this call
    dirs,           \* directories that exist on disk
    archive,        \* per product: its outcome in earlier calls (history)
    \* ---- query / query_in_batches ----
    qpc,            \* position of the generator
    qargs,          \* [start, end, interval] of the query_in_batches call
    curEnd,         \* end of the next window (descending traversal)
    windows,        \* the windows handed to query() by the batcher
    requests,       \* the search requests sent to the remote catalog
    responses,      \* the total_results the catalog reported, one per request
    yields,         \* the (window, count) pairs yielded so far
    expectedTotal,  \* expected_total_count
    totalRetrieved, \* total_retrieved_count
    warned,         \* whether the count-mismatch warning was logged
    \* ---- FilesIntegrityValidator ----
    vpc,            \* position of the validator: none, refused, ready, missing,
                    \* corrupted, pool, returned, raised
    kwargs,         \* the keyword arguments given to the constructor
    config,         \* the fields of the validated model (None before it exists)
    filepaths,      \* the filepaths argument of the running verify call
    sizeOnDisk,     \* the size in bytes of every file
    completed,      \* (position, size) of the finished size lookups, in the
                    \* order the workers finished them
    missing,        \* what find_missing_files returned to verify
    outcome,        \* what the last verify call returned or raised
    firstOutcome,   \* what the first verify call returned or raised (history)
    again,          \* whether verify was called a second time
    resized,        \* whether a file changed size between the two calls
    seenMissing,    \* the filepaths find_missing_files received (history)
    seenCorrupted,  \* the filepaths find_corrupted_files received (history)
    \* ---- Writer / Reader ----
    wpc,            \* position of the writer: idle, open, writing, returned,
                    \* raised, read, readAfterRaise
    writer,         \* the fields of the Writer
    batches,        \* the batches of the call (write: the one list of items)
    inBatches,      \* whether the call is write_in_batches
    bi,             \* the batch being written
    pos,            \* position (1-based) of the next item in the batch
    fileText,       \* the content of the output file
    previous,       \* what the file held before the call (history)
    numberOfItems,  \* number_of_items, added up over the batches
    raisedExc,      \* the exception the call raised, if it raised
    warnings,       \* number of warnings logged
    written,        \* the items written, after the transform (history)
    readBack,       \* what Reader.read returned, and the reader's trim
    \* ---- TempDirectory ----
    tempdir,        \* tempfile.tempdir
    contexts,       \* the active contexts, innermost last: temp_directory,
                    \* _default_tempdir and _dir of each
    entryValues,    \* gettempdir() at the entry of each active context (history)
    made,           \* the temporary directories other code created (history)
    ndirs,          \* number of directories created so far
    lastExit        \* the last exit of a context (history)

fetchVars == <<fpc, batch, idx, results, jobs, observed, customisation, writes, dirs, archive>>
queryVars == <<qpc, qargs, curEnd, windows, requests, responses, yields, expectedTotal,
              totalRetrieved, warned>>
validatorVars == <<vpc, kwargs, config, filepaths, sizeOnDisk, completed, missing, outcome,
                  firstOutcome, again, resized, seenMissing, seenCorrupted>>
writerVars == <<wpc, writer, batches, inBatches, bi, pos, fileText, previous, numberOfItems,
               raisedExc, warnings, written, readBack>>
tempVars == <<tempdir, contexts, entryValues, made, ndirs, lastExit>>
vars == <<fetchVars, queryVars, validatorVars, writerVars, tempVars>>

(***************************************************************************)
(* Raw status strings of a Data Tailor customisation.  The poller tests    *)
(* `"DONE" in status` (a substring test) and list membership, so the text  *)
(* of every status is kept.                                                *)
(***************************************************************************)
RawStatus == {"QUEUED", "RUNNING", "DONE", "ERROR", "FAILED", "DELETED", "KILLED",
              "INACTIVE", "CANCELLED", "UNKNOWN"}

StatusText(s) ==
    CASE s = "QUEUED"    -> <<"Q", "U", "E", "U", "E", "D">>
      [] s = "RUNNING"   -> <<"R", "U", "N", "N", "I", "N", "G">>
      [] s = "DONE"      -> <<"D", "O", "N", "E">>
      [] s = "ERROR"     -> <<"E", "R", "R", "O", "R">>
      [] s = "FAILED"    -> <<"F", "A", "I", "L", "E", "D">>
      [] s = "DELETED"   -> <<"D", "E", "L", "E", "T", "E", "D">>
      [] s = "KILLED"    -> <<"K", "I", "L", "L", "E", "D">>
      [] s = "INACTIVE"  -> <<"I", "N", "A", "C", "T", "I", "V", "E">>
      [] s = "CANCELLED" -> <<"C", "A", "N", "C", "E", "L", "L", "E", "D">>
      [] s = "UNKNOWN"   -> <<"U", "N", "K", "N", "O", "W", "N">>

\* Python's `pat in text` on strings.
Contains(text, pat) ==
    \E i \in 1..(Len(text) - Len(pat) + 1) : SubSeq(text, i, i + Len(pat) - 1) = pat

\* `"DONE" in customisation.status`
IsDone(s) == Contains(StatusText(s), <<"D", "O", "N", "E">>)

\* The list of the first elif, with one entry dropped.
ErrorStatuses_Short == {"ERROR", "FAILED", "DELETED", "KILLED"}
\* `customisation.status in ["ERROR", "FAILED", "DELETED", "KILLED", "INACTIVE"]`
ErrorStatuses == {"ERROR", "FAILED", "DELETED", "KILLED", "INACTIVE"}

\* `customisation.status in ["QUEUED", "RUNNING"]`
ActiveStatuses == {"QUEUED", "RUNNING"}

(***************************************************************************)
(* Output artifacts of a job, and the file the poller picks.               *)
(***************************************************************************)
File(p, ext) == [stem |-> p, ext |-> ext]

\* What a finished job may list as its outputs.
OutputChoices(p) ==
    { <<>>, <<File(p, "tif")>>, <<File(p, "nc")>>, <<File(p, "tif"), File(p, "nc")>> }

\* fnmatch.filter(customisation.outputs, "*.nc")
FilterNc(outputs) == SelectSeq(outputs, LAMBDA f : f.ext = "nc")

\* output_directory / stream.name
PathOf(dir, f) == [dir |-> dir, name |-> f]

(***************************************************************************)
(* The remote Data Tailor service.                                         *)
(***************************************************************************)
\* A queued job starts running or ends; a running job ends.  When it ends as
\* DONE its outputs become available.
RemoteStep ==
    /\ \E j \in DOMAIN jobs :
        /\ jobs[j].status \in ActiveStatuses
        /\ \E s \in RawStatus \ {"QUEUED", jobs[j].status} :
           \E outs \in (IF s = "DONE" THEN OutputChoices(jobs[j].product) ELSE {<<>>}) :
              jobs' = [jobs EXCEPT ![j] = [@ EXCEPT !.status = s, !.outputs = outs]]
    /\ UNCHANGED <<fpc, batch, idx, results, observed, customisation, writes, dirs, archive>>
    /\ UNCHANGED <<queryVars, validatorVars, writerVars, tempVars>>

(***************************************************************************)
(* fetch_products.                                                         *)
(***************************************************************************)
Batches == UNION { [1..n -> Products] : n \in 0..MaxBatch }

\* The outcome of product p in the call that just ended, if it had one.
LastOutcome(p) ==
    LET js == { j \in DOMAIN jobs : jobs[j].product = p /\ observed[j] \in {"Done", "Error"} }
    IN  IF js = {} THEN archive[p]
        ELSE observed[CHOOSE j \in js : \A k \in js : k <= j]

\* Where the comprehension goes once fetch_product has returned for item i.
AfterItem(i) == IF i >= Len(batch) THEN "returned" ELSE "submit"

\* fetch_products(search_results, output_directory, ...): mkdir, build the
\* chain, start the comprehension.
FetchProducts ==
    /\ fpc \in {"idle", "returned", "raised"}
    /\ \E b \in Batches :
        /\ batch' = b
        /\ fpc' = IF b = <<>> THEN "returned" ELSE "submit"
    /\ dirs' = dirs \cup {OutputDirectory}
    /\ idx' = 1
    /\ results' = <<>>
    /\ jobs' = <<>>
    /\ observed' = <<>>
    /\ customisation' = 0
    /\ writes' = <<>>
    /\ archive' = [p \in Products |-> LastOutcome(p)]
    /\ UNCHANGED <<queryVars, validatorVars, writerVars, tempVars>>

(***************************************************************************)
(* fetch_product.                                                          *)
(***************************************************************************)
\* Re-creating the customisation on every pass of the loop.
LoopHead_Resubmit == "submit"
\* `while True:` re-enters at the status test.
LoopHead == "read1"

\* customisation = self.__data_tailor.new_customisation(product, chain)
NewCustomisation ==
    /\ fpc = "submit"
    /\ jobs' = Append(jobs, [product |-> batch[idx], pos |-> idx,
                             status |-> "QUEUED", outputs |-> <<>>])
    /\ observed' = Append(observed, "pending")
    /\ customisation' = Len(jobs) + 1
    /\ fpc' = "read1"
    /\ UNCHANGED <<batch, idx, results, writes, dirs, archive>>
    /\ UNCHANGED <<queryVars, validatorVars, writerVars, tempVars>>

\* if "DONE" in customisation.status: a "*.nc" output exists; it is written
\* to the output directory and its path returned.
PollDone ==
    /\ fpc = "read1"
    /\ IsDone(jobs[customisation].status)
    /\ FilterNc(jobs[customisation].outputs) # <<>>
    /\ LET customized_file == FilterNc(jobs[customisation].outputs)[1]
           path == PathOf(OutputDirectory, customized_file)
       IN  /\ writes' = Append(writes, [job |-> customisation, path |-> path])
           /\ results' = Append(results, path)
    /\ observed' = [observed EXCEPT ![customisation] = "Done"]
    /\ idx' = idx + 1
    /\ fpc' = AfterItem(idx)
    /\ UNCHANGED <<batch, jobs, customisation, dirs, archive>>
    /\ UNCHANGED <<queryVars, validatorVars, writerVars, tempVars>>

\* if "DONE" in customisation.status: no "*.nc" output, so `[0]` raises
\* IndexError, which nothing catches: fetch_products ends with it.
PollDoneNoOutput ==
    /\ fpc = "read1"
    /\ IsDone(jobs[customisation].status)
    /\ FilterNc(jobs[customisation].outputs) = <<>>
    /\ observed' = [observed EXCEPT ![customisation] = "IndexError"]
    /\ fpc' = "raised"
    /\ UNCHANGED <<batch, idx, results, jobs, customisation, writes, dirs, archive>>
    /\ UNCHANGED <<queryVars, validatorVars, writerVars, tempVars>>

\* The first test fails: on to the first elif.
PollNotDone ==
    /\ fpc = "read1"
    /\ ~IsDone(jobs[customisation].status)
    /\ fpc' = "read2"
    /\ UNCHANGED <<batch, idx, results, jobs, observed, customisation, writes, dirs, archive>>
    /\ UNCHANGED <<queryVars, validatorVars, writerVars, tempVars>>

\* Submitting the product again after a failed job.
OnError_Retry(res, i) == [results |-> res, idx |-> i, pc |-> "submit"]
\* `return None`: the comprehension records None and takes the next product.
OnError(res, i) == [results |-> Append(res, None), idx |-> i + 1, pc |-> AfterItem(i)]

\* elif customisation.status in [...]: log a warning, return None.
PollError ==
    /\ fpc = "read2"
    /\ jobs[customisation].status \in ErrorStatuses
    /\ results' = OnError(results, idx).results
    /\ observed' = [observed EXCEPT ![customisation] = "Error"]
    /\ idx' = OnError(results, idx).idx
    /\ fpc' = OnError(results, idx).pc
    /\ UNCHANGED <<batch, jobs, customisation, writes, dirs, archive>>
    /\ UNCHANGED <<queryVars, validatorVars, writerVars, tempVars>>

\* The first elif fails: on to the second.
PollNotError ==
    /\ fpc = "read2"
    /\ jobs[customisation].status \notin ErrorStatuses
    /\ fpc' = "read3"
    /\ UNCHANGED <<batch, idx, results, jobs, observed, customisation, writes, dirs, archive>>
    /\ UNCHANGED <<queryVars, validatorVars, writerVars, tempVars>>

\* elif customisation.status in ["QUEUED", "RUNNING"]: log, time.sleep(sleep_time)
PollActive ==
    /\ fpc = "read3"
    /\ jobs[customisation].status \in ActiveStatuses
    /\ fpc' = "sleeping"
    /\ UNCHANGED <<batch, idx, results, jobs, observed, customisation, writes, dirs, archive>>
    /\ UNCHANGED <<queryVars, validatorVars, writerVars, tempVars>>

\* time.sleep returns; the loop starts over.
WakeUp ==
    /\ fpc = "sleeping"
    /\ fpc' = LoopHead
    /\ UNCHANGED <<batch, idx, results, jobs, observed, customisation, writes, dirs, archive>>
    /\ UNCHANGED <<queryVars, validatorVars, writerVars, tempVars>>

\* No branch matches: the loop starts over at once, without sleeping.
PollUnmatched ==
    /\ fpc = "read3"
    /\ jobs[customisation].status \notin ActiveStatuses
    /\ fpc' = LoopHead
    /\ UNCHANGED <<batch, idx, results, jobs, observed, customisation, writes, dirs, archive>>
    /\ UNCHANGED <<queryVars, validatorVars, writerVars, tempVars>>

(***************************************************************************)
(* Specification of the fetch.                                             *)
(***************************************************************************)
Init ==
    /\ fpc = "idle"
    /\ batch = <<>>
    /\ idx = 1
    /\ results = <<>>
    /\ jobs = <<>>
    /\ observed = <<>>
    /\ customisation = 0
    /\ writes = <<>>
    /\ dirs = {}
    /\ archive = [p \in Products |-> "none"]
    /\ qpc = "idle"
    /\ qargs = [start |-> 0, end |-> 0, interval |-> 1]
    /\ curEnd = 0
    /\ windows = <<>>
    /\ requests = <<>>
    /\ responses = <<>>
    /\ yields = <<>>
    /\ expectedTotal = 0
    /\ totalRetrieved = 0
    /\ warned = FALSE
    /\ vpc = "none"
    /\ kwargs = None
    /\ config = None
    /\ filepaths = <<>>
    /\ sizeOnDisk = [f \in Files |-> 0]
    /\ completed = <<>>
    /\ missing = None
    /\ outcome = None
    /\ firstOutcome = None
    /\ again = FALSE
    /\ resized = FALSE
    /\ seenMissing = <<>>
    /\ seenCorrupted = <<>>
    /\ wpc = "idle"
    /\ writer = None
    /\ batches = <<>>
    /\ inBatches = FALSE
    /\ bi = 1
    /\ pos = 1
    /\ fileText = <<>>
    /\ previous = <<>>
    /\ numberOfItems = 0
    /\ raisedExc = None
    /\ warnings = 0
    /\ written = <<>>
    /\ readBack = None
    /\ tempdir = None
    /\ contexts = <<>>
    /\ entryValues = <<>>
    /\ made = <<>>
    /\ ndirs = 0
    /\ lastExit = None

Next ==
    \/ FetchProducts
    \/ NewCustomisation
    \/ RemoteStep
    \/ PollDone
    \/ PollDoneNoOutput
    \/ PollNotDone
    \/ PollError
    \/ PollNotError
    \/ PollActive
    \/ WakeUp
    \/ PollUnmatched

Spec == Init /\ [][Next]_vars

(***************************************************************************)
(* query and query_in_batches.  Datetimes are integers; the remote catalog *)
(* answers every search with a total_results of its own choosing.          *)
(***************************************************************************)
Times == 0..MaxT
Intervals == 1..(MaxT + 1)
Counts == 0..MaxCount

Max(a, b) == IF a >= b THEN a ELSE b

\* assert_start_time_is_before_end_time raises ValueError for this range.
StartAfterEnd(s, e) == s > e

\* The collection's snapshot instants: every other instant, off the origin.
IsSnapshot(t) == t % 2 = 1

\* floor_datetime_minutes_to_specific_snapshots: the latest snapshot instant
\* not after t.
FloorToSnapshot(t) ==
    CHOOSE u \in (t - 1)..t : IsSnapshot(u)

\* Every search is sent twice.
QueryOutcome_Twice(reqs, s, e, kind) ==
    IF StartAfterEnd(s, e)
    THEN [raised |-> TRUE, requests |-> reqs]
    ELSE [raised   |-> FALSE,
          requests |-> reqs \o << [dtstart |-> s, dtend |-> FloorToSnapshot(e), kind |-> kind],
                                  [dtstart |-> s, dtend |-> FloorToSnapshot(e), kind |-> kind] >>]
\* The search is sent before the range is validated.
QueryOutcome_SearchFirst(reqs, s, e, kind) ==
    [raised   |-> StartAfterEnd(s, e),
     requests |-> Append(reqs, [dtstart |-> s, dtend |-> FloorToSnapshot(e), kind |-> kind])]
\* query(start_datetime, end_datetime): validate the range, floor the end,
\* then send the search.  `kind` tags the caller's purpose in the log.
QueryOutcome(reqs, s, e, kind) ==
    IF StartAfterEnd(s, e)
    THEN [raised |-> TRUE, requests |-> reqs]
    ELSE [raised   |-> FALSE,
          requests |-> Append(reqs, [dtstart |-> s, dtend |-> FloorToSnapshot(e),
                                     kind |-> kind])]

\* The floored end is handed on.
SuperArgs_FlooredEnd(a) ==
    [start |-> a.start, end |-> FloorToSnapshot(a.end), interval |-> a.interval,
     order |-> "descending"]
\* batch_interval is not handed on.
SuperArgs_NoInterval(a) ==
    [start |-> a.start, end |-> a.end, interval |-> 1, order |-> "descending"]
\* The end is made inclusive.
SuperArgs_InclusiveEnd(a) ==
    [start |-> a.start, end |-> a.end + 1, interval |-> a.interval, order |-> "descending"]
\* The arguments handed to super().query_in_batches.
SuperArgs(a) ==
    [start |-> a.start, end |-> a.end, interval |-> a.interval, order |-> "descending"]

\* Calling query_in_batches makes the generator; its body has not started.
QueryInBatches ==
    /\ qpc = "idle"
    /\ \E s \in Times, e \in Times, w \in Intervals :
         qargs' = [start |-> s, end |-> e, interval |-> w]
    /\ qpc' = "created"
    /\ UNCHANGED <<curEnd, windows, requests, responses, yields, expectedTotal, totalRetrieved,
                   warned>>
    /\ UNCHANGED <<fetchVars, validatorVars, writerVars, tempVars>>

\* The batching is skipped when the catalog expects nothing in the range.
ExpectedTotal_SkipWhenZero ==
    /\ qpc = "created"
    /\ LET out == QueryOutcome(requests, qargs.start, qargs.end, "total")
       IN  /\ requests' = out.requests
           /\ IF out.raised
              THEN /\ qpc' = "raised"
                   /\ UNCHANGED <<expectedTotal, curEnd, responses>>
              ELSE /\ \E n \in Counts :
                        /\ responses' = Append(responses, n)
                        /\ expectedTotal' = n
                        /\ qpc' = IF n = 0 THEN "done" ELSE "batching"
                   /\ curEnd' = SuperArgs(qargs).end
    /\ UNCHANGED <<qargs, windows, yields, totalRetrieved, warned>>
    /\ UNCHANGED <<fetchVars, validatorVars, writerVars, tempVars>>

\* expected_total_count = self.len(self.query(start_datetime, end_datetime)),
\* then the base class's generator starts at the end of the range.
ExpectedTotal ==
    /\ qpc = "created"
    /\ LET out == QueryOutcome(requests, qargs.start, qargs.end, "total")
       IN  /\ requests' = out.requests
           /\ IF out.raised
              THEN /\ qpc' = "raised"
                   /\ UNCHANGED <<expectedTotal, curEnd, responses>>
              ELSE /\ qpc' = "batching"
                   /\ \E n \in Counts :
                        /\ responses' = Append(responses, n)
                        /\ expectedTotal' = n
                   /\ curEnd' = SuperArgs(qargs).end
    /\ UNCHANGED <<qargs, windows, yields, totalRetrieved, warned>>
    /\ UNCHANGED <<fetchVars, validatorVars, writerVars, tempVars>>

\* One pass of the base class's loop: the next window (descending), one
\* query for it, the running total, and the yield of (batch, count).
NextWindow ==
    /\ qpc = "batching"
    /\ curEnd > SuperArgs(qargs).start
    /\ LET newStart == Max(curEnd - SuperArgs(qargs).interval, SuperArgs(qargs).start)
           out == QueryOutcome(requests, newStart, curEnd, "window")
       IN  /\ requests' = out.requests
           /\ windows' = Append(windows, [start |-> newStart, end |-> curEnd])
           /\ IF out.raised
              THEN /\ qpc' = "raised"
                   /\ UNCHANGED <<yields, totalRetrieved, curEnd, responses>>
              ELSE /\ qpc' = "yielded"
                   /\ \E n \in Counts :
                        /\ responses' = Append(responses, n)
                        /\ totalRetrieved' = totalRetrieved + n
                        /\ yields' = Append(yields, [start |-> newStart, end |-> curEnd,
                                                     count |-> n])
                   /\ curEnd' = newStart
    /\ UNCHANGED <<qargs, expectedTotal, warned>>
    /\ UNCHANGED <<fetchVars, validatorVars, writerVars, tempVars>>

\* The consumer asks for the next pair.
Resume ==
    /\ qpc = "yielded"
    /\ qpc' = "batching"
    /\ UNCHANGED <<qargs, curEnd, windows, requests, responses, yields, expectedTotal,
                   totalRetrieved, warned>>
    /\ UNCHANGED <<fetchVars, validatorVars, writerVars, tempVars>>

\* The range is used up: compare the totals, warn on a mismatch, end.
Finish ==
    /\ qpc = "batching"
    /\ curEnd <= SuperArgs(qargs).start
    /\ warned' = (expectedTotal # totalRetrieved)
    /\ qpc' = "done"
    /\ UNCHANGED <<qargs, curEnd, windows, requests, responses, yields, expectedTotal,
                   totalRetrieved>>
    /\ UNCHANGED <<fetchVars, validatorVars, writerVars, tempVars>>

NextQuery ==
    \/ QueryInBatches
    \/ ExpectedTotal
    \/ NextWindow
    \/ Resume
    \/ Finish

SpecQuery == Init /\ [][NextQuery]_vars

(***************************************************************************)
(* Python's float arithmetic, as is_corrupted uses it: IEEE-754 binary64   *)
(* with round-to-nearest, ties to even.  A bit string is a sequence of 0s  *)
(* and 1s, most significant bit first.  A finite non-negative float is     *)
(* zero, or 1.m[2]m[3]...m[53] * 2^e with m[1] = 1.  File sizes are far    *)
(* from the overflow and subnormal ranges, which are left out.             *)
(***************************************************************************)
\* The number of bits of a binary64 significand.
MantBits == 53

FloatZero == [zero |-> TRUE, e |-> 0, m |-> SubSeq([i \in 1..MantBits |-> 0], 1, MantBits)]

RECURSIVE ExpUp(_, _)
\* The largest k with b * 2^k <= a, for a >= b > 0.
ExpUp(a, b) == IF 2 * b <= a THEN 1 + ExpUp(a, 2 * b) ELSE 0

RECURSIVE ExpDown(_, _)
\* The smallest k with a * 2^k >= b, for a > 0.
ExpDown(a, b) == IF a < b THEN 1 + ExpDown(2 * a, b) ELSE 0

RECURSIVE Pow2(_)
Pow2(k) == IF k = 0 THEN 1 ELSE 2 * Pow2(k - 1)

\* The w-bit string of the number v < 2^w.
ToBits(v, w) == [i \in 1..w |-> (v \div Pow2(w - i)) % 2]

\* Long division yields this many bits of a quotient per step.
StepBits == 8

RECURSIVE QuotientBits(_, _, _)
\* The next k bits of the binary expansion of r / b, for r < b, and the
\* remainder left after them.
QuotientBits(r, b, k) ==
    IF k = 0
    THEN [bits |-> <<>>, rem |-> r]
    ELSE LET w    == IF k < StepBits THEN k ELSE StepBits
             rest == QuotientBits((r * Pow2(w)) % b, b, k - w)
         IN  [bits |-> ToBits((r * Pow2(w)) \div b, w) \o rest.bits, rem |-> rest.rem]

\* The bit string plus one, in the same width: the carry reaches a bit when
\* every bit to its right is 1.
Increment(bits) ==
    SubSeq([i \in DOMAIN bits |->
               IF \A j \in (i + 1)..Len(bits) : bits[j] = 1 THEN 1 - bits[i] ELSE bits[i]],
           1, Len(bits))

\* Round to nearest, ties to even: sig is the significand kept, guard the
\* first bit dropped, sticky whether anything non-zero follows it.
Rounded(e, sig, guard, sticky) ==
    IF guard = 1 /\ (sticky \/ sig[Len(sig)] = 1)
    THEN IF \A i \in DOMAIN sig : sig[i] = 1
         THEN [zero |-> FALSE, e |-> e + 1,
               m |-> SubSeq([i \in DOMAIN sig |-> IF i = 1 THEN 1 ELSE 0], 1, Len(sig))]
         ELSE [zero |-> FALSE, e |-> e, m |-> Increment(sig)]
    ELSE [zero |-> FALSE, e |-> e, m |-> sig]

\* a / b of two ints (Python's true division), a >= 0 and b > 0.
TrueDivide(a, b) ==
    IF a = 0
    THEN FloatZero
    ELSE LET e   == IF a >= b THEN ExpUp(a, b) ELSE 0 - ExpDown(a, b)
             num == IF e < 0 THEN a * Pow2(0 - e) ELSE a
             den == IF e > 0 THEN b * Pow2(e) ELSE b
             q   == QuotientBits(num - den, den, MantBits)
         IN  Rounded(e, <<1>> \o SubSeq(q.bits, 1, MantBits - 1),
                     q.bits[MantBits], q.rem # 0)

\* The float a small int converts to.
IntToFloat(k) == TrueDivide(k, 1)

\* The bits of x at the binary positions hi down to lo - MantBits + 1.
Expand(x, hi, lo) ==
    SubSeq([i \in 1..(hi - lo + MantBits) |->
               LET j == i - (hi - x.e)
               IN  IF j >= 1 /\ j <= MantBits THEN x.m[j] ELSE 0],
           1, hi - lo + MantBits)

\* a < b on the bits from position from on, for bit strings of one width.
SuffixLess(a, b, from) ==
    \E k \in from..Len(a) :
        /\ a[k] < b[k]
        /\ \A j \in from..(k - 1) : a[j] = b[j]

\* a < b, for bit strings of one width.
BitsLess(a, b) == SuffixLess(a, b, 1)

\* a - b, for bit strings of one width with a >= b: a bit borrows when the
\* bits to its right are less in a than in b.
BitsMinus(a, b) ==
    SubSeq([i \in DOMAIN a |->
               (a[i] - b[i] - (IF SuffixLess(a, b, i + 1) THEN 1 ELSE 0)) % 2],
           1, Len(a))

LeadingZeros(bits) ==
    IF \A i \in DOMAIN bits : bits[i] = 0
    THEN Len(bits)
    ELSE (CHOOSE i \in DOMAIN bits : bits[i] = 1 /\ \A j \in 1..(i - 1) : bits[j] = 0) - 1

BitAt(bits, i) == IF i <= Len(bits) THEN bits[i] ELSE 0

\* The float nearest to the exact value of a bit string whose first bit has
\* binary position hi.
FromBits(bits, hi) ==
    LET z == LeadingZeros(bits)
    IN  IF z = Len(bits)
        THEN FloatZero
        ELSE Rounded(hi - z,
                     SubSeq([i \in 1..MantBits |-> BitAt(bits, z + i)], 1, MantBits),
                     BitAt(bits, z + MantBits + 1),
                     \E i \in (z + MantBits + 2)..Len(bits) : bits[i] = 1)

\* abs(x - y) of two non-negative floats.
AbsDifference(x, y) ==
    IF x.zero THEN y
    ELSE IF y.zero THEN x
    ELSE LET hi == IF x.e > y.e THEN x.e ELSE y.e
             lo == IF x.e > y.e THEN y.e ELSE x.e
             xb == Expand(x, hi, lo)
             yb == Expand(y, hi, lo)
         IN  IF BitsLess(xb, yb)
             THEN FromBits(BitsMinus(yb, xb), hi)
             ELSE FromBits(BitsMinus(xb, yb), hi)

\* x > y of two non-negative floats.
FloatGreater(x, y) ==
    IF x.zero THEN FALSE
    ELSE IF y.zero THEN TRUE
    ELSE IF x.e # y.e THEN x.e > y.e
    ELSE BitsLess(y.m, x.m)

(***************************************************************************)
(* FilesIntegrityValidator.  An optional field is None or Some(value).     *)
(* Tolerances are the decimal literals k/100, kept as the integer k.       *)
(***************************************************************************)
Some(v) == [none |-> FALSE, val |-> v]

\* The reference items a validator is given: none, an empty collection, file
\* paths, or the items the transform function makes out of file paths.
References == {None, Some({}), Some({"a", "b"}), Some({"ta", "tb"})}
\* nominal_size: NonNegativeInt | None
NominalSizes == {None, Some(0), Some(1000)}
\* tolerance, in hundredths.
Tolerances == {-1, 0, 1}
\* transform_function: None, or a function that parses a path into an item.
TransformFunctions == {None, Some("parse")}
\* number_of_processes of the worker pool.
Parallelism == {1, 2}

RECURSIVE SeqsUpTo(_, _)
\* The sequences over S of length at most n.
SeqsUpTo(S, n) ==
    IF n = 0
    THEN {<<>>}
    ELSE LET shorter == SeqsUpTo(S, n - 1)
         IN  shorter \cup {Append(q, x) : q \in shorter, x \in S}

\* The lists of file paths verify is called with.
FilePathLists == SeqsUpTo(Files, MaxFiles)

\* Python's truth value of an optional collection: None and the empty
\* collection are false.
IsTruthy(x) == IF x.none THEN FALSE ELSE x.val # {}

\* Python's truth value of an optional function: only None is false.
FunctionIsTruthy(x) == ~x.none

\* tolerance: NonNegativeFloat
ToleranceAccepted_Any(t) == TRUE
ToleranceAccepted(t) == t >= 0

\* The float of the tolerance literal.
ToleranceFloat(t) == TrueDivide(t, 100)

\* is_corrupted: abs(1 - file_size / self.nominal_size) > self.tolerance
IsCorrupted(file_size, nominal_size, tolerance) ==
    FloatGreater(AbsDifference(IntToFloat(1), TrueDivide(file_size, nominal_size)),
                 ToleranceFloat(tolerance))

\* is_corrupted on every size, positive nominal size and non-negative
\* tolerance of the model.
IsCorruptedTable ==
    [n \in {x.val : x \in {y \in NominalSizes : ~y.none /\ y.val > 0}} |->
        [t \in {u \in Tolerances : u >= 0} |->
            [s \in Sizes |-> IsCorrupted(s, n, t)]]]

\* The items the parse function makes out of file paths.
Parse(f) == IF f = "a" THEN "ta" ELSE "tb"

\* transform_files
TransformFiles(cfg, fps) ==
    IF FunctionIsTruthy(cfg.transform_function)
    THEN {Parse(fps[i]) : i \in DOMAIN fps}
    ELSE {fps[i] : i \in DOMAIN fps}

\* find_missing_files
FindMissingFiles(cfg, fps) ==
    IF IsTruthy(cfg.reference)
    THEN Some(cfg.reference.val \ TransformFiles(cfg, fps))
    ELSE None

\* set(self.reference) reads the reference and leaves it as it was.
ReferenceAfterRead_Consumed(ref) == IF ref.none THEN ref ELSE Some({})
ReferenceAfterRead(ref) == ref

\* The filepaths each half of verify is handed.
MissingInput(fps) == fps
CorruptedInput_Exhausted(fps) == <<>>
CorruptedInput(fps) == fps

\* The positions whose size lookup has finished.
Finished == {completed[k].pos : k \in DOMAIN completed}

\* The worker pool takes the tasks in the order of the list and runs at most
\* number_of_processes of them at a time.
CanFinish(p) ==
    /\ p \in DOMAIN seenCorrupted
    /\ p \notin Finished
    /\ Cardinality({q \in 1..(p - 1) : q \notin Finished}) < config.number_of_processes

\* The list the pool returns: the size for each position of the input.
FileSizes ==
    [p \in DOMAIN seenCorrupted |->
        (CHOOSE k \in DOMAIN completed : completed[k].pos = p)]

\* zip(filepaths, file_sizes, strict=True)
Pairs_FirstSize(fps, sizes) == {<<fps[i], sizes[1]>> : i \in DOMAIN fps}
Pairs(fps, sizes) == {<<fps[i], sizes[i]>> : i \in DOMAIN fps}

\* ---- the environment: the files on disk ----
StoreFiles ==
    /\ vpc = "ready"
    /\ vpc' = "stored"
    /\ sizeOnDisk' \in [Files -> Sizes]
    /\ UNCHANGED <<kwargs, config, filepaths, completed, missing, outcome, firstOutcome,
                   again, resized, seenMissing, seenCorrupted>>
    /\ UNCHANGED <<fetchVars, queryVars, writerVars, tempVars>>

Resize ==
    /\ vpc \in {"returned", "raised"}
    /\ ~again
    /\ ~resized
    /\ \E f \in Files :
         \E s \in Sizes \ {sizeOnDisk[f]} :
            sizeOnDisk' = [sizeOnDisk EXCEPT ![f] = s]
    /\ resized' = TRUE
    /\ UNCHANGED <<vpc, kwargs, config, filepaths, completed, missing, outcome, firstOutcome,
                   again, seenMissing, seenCorrupted>>
    /\ UNCHANGED <<fetchVars, queryVars, writerVars, tempVars>>

\* ---- FilesIntegrityValidator(**kwargs) ----
Construct ==
    /\ vpc = "none"
    /\ \E ref \in References, n \in NominalSizes, t \in Tolerances,
          fn \in TransformFunctions, np \in Parallelism :
         /\ kwargs' = [reference |-> ref, nominal_size |-> n, tolerance |-> t,
                       transform_function |-> fn, number_of_processes |-> np]
         /\ IF ToleranceAccepted(t)
            THEN /\ config' = kwargs'
                 /\ vpc' = "ready"
            ELSE /\ config' = None
                 /\ vpc' = "refused"
    /\ UNCHANGED <<filepaths, sizeOnDisk, completed, missing, outcome, firstOutcome,
                   again, resized, seenMissing, seenCorrupted>>
    /\ UNCHANGED <<fetchVars, queryVars, writerVars, tempVars>>

\* ---- verify(filepaths) ----
Verify ==
    /\ vpc = "stored"
    /\ vpc' = "missing"
    /\ filepaths' \in FilePathLists
    /\ UNCHANGED <<kwargs, config, sizeOnDisk, completed, missing, outcome, firstOutcome,
                   again, resized, seenMissing, seenCorrupted>>
    /\ UNCHANGED <<fetchVars, queryVars, writerVars, tempVars>>

\* verify is called once more, with the same filepaths.
VerifyAgain ==
    /\ vpc \in {"returned", "raised"}
    /\ ~again
    /\ again' = TRUE
    /\ vpc' = "missing"
    /\ completed' = <<>>
    /\ UNCHANGED <<kwargs, config, filepaths, sizeOnDisk, missing, outcome, firstOutcome,
                   resized, seenMissing, seenCorrupted>>
    /\ UNCHANGED <<fetchVars, queryVars, writerVars, tempVars>>

\* The left half of the returned tuple is evaluated first.
FindMissing ==
    /\ vpc = "missing"
    /\ seenMissing' = MissingInput(filepaths)
    /\ missing' = FindMissingFiles(config, seenMissing')
    /\ config' = [config EXCEPT !.reference = ReferenceAfterRead(@)]
    /\ vpc' = "corrupted"
    /\ UNCHANGED <<kwargs, filepaths, sizeOnDisk, completed, outcome, firstOutcome,
                   again, resized, seenCorrupted>>
    /\ UNCHANGED <<fetchVars, queryVars, writerVars, tempVars>>

\* What verify hands back; the first call's is remembered.
Returns(res, pc) ==
    /\ outcome' = res
    /\ firstOutcome' = IF again THEN firstOutcome ELSE res
    /\ vpc' = pc

\* find_corrupted_files without a nominal size: verify returns at once.
FindCorruptedNone ==
    /\ vpc = "corrupted"
    /\ config.nominal_size.none
    /\ seenCorrupted' = CorruptedInput(filepaths)
    /\ Returns([missing |-> missing, corrupted |-> None], "returned")
    /\ UNCHANGED <<kwargs, config, filepaths, sizeOnDisk, completed, missing,
                   again, resized, seenMissing>>
    /\ UNCHANGED <<fetchVars, queryVars, writerVars, tempVars>>

\* find_corrupted_files with a nominal size: the lookups go to the pool.
FindCorruptedRun ==
    /\ vpc = "corrupted"
    /\ ~config.nominal_size.none
    /\ seenCorrupted' = CorruptedInput(filepaths)
    /\ vpc' = "pool"
    /\ UNCHANGED <<kwargs, config, filepaths, sizeOnDisk, completed, missing, outcome,
                   firstOutcome, again, resized, seenMissing>>
    /\ UNCHANGED <<fetchVars, queryVars, writerVars, tempVars>>

\* A worker finishes os.path.getsize of one file.
WorkerDone ==
    /\ vpc = "pool"
    /\ \E p \in DOMAIN seenCorrupted :
         /\ CanFinish(p)
         /\ completed' = Append(completed, [pos |-> p, size |-> sizeOnDisk[seenCorrupted[p]]])
    /\ UNCHANGED <<vpc, kwargs, config, filepaths, sizeOnDisk, missing, outcome,
                   firstOutcome, again, resized, seenMissing, seenCorrupted>>
    /\ UNCHANGED <<fetchVars, queryVars, writerVars, tempVars>>

\* All sizes are gathered: the comprehension over the zipped pairs, and the
\* return of verify.  Dividing by a nominal size of 0 raises.
ZipSizes ==
    /\ vpc = "pool"
    /\ Finished = DOMAIN seenCorrupted
    /\ LET n     == config.nominal_size.val
           sizes == [p \in DOMAIN seenCorrupted |-> completed[FileSizes[p]].size]
           pairs == Pairs(seenCorrupted, sizes)
       IN  IF pairs # {} /\ n = 0
           THEN Returns([raised |-> "ZeroDivisionError"], "raised")
           ELSE Returns([missing   |-> missing,
                         corrupted |-> Some({pr[1] : pr \in
                                          {x \in pairs :
                                              IsCorruptedTable[n][config.tolerance][x[2]]}})],
                        "returned")
    /\ UNCHANGED <<kwargs, config, filepaths, sizeOnDisk, completed, missing,
                   again, resized, seenMissing, seenCorrupted>>
    /\ UNCHANGED <<fetchVars, queryVars, writerVars, tempVars>>

NextValidator ==
    \/ Construct
    \/ StoreFiles
    \/ Verify
    \/ FindMissing
    \/ FindCorruptedNone
    \/ FindCorruptedRun
    \/ WorkerDone
    \/ ZipSizes
    \/ Resize
    \/ VerifyAgain

SpecValidator == Init /\ [][NextValidator]_vars

(***************************************************************************)
(* Writer and Reader.  A text is a sequence of characters; an item is the  *)
(* text str(item) gives for it.                                            *)
(***************************************************************************)
NewLine == "\n"
\* The characters str.strip() removes.
Whitespace == {" ", NewLine}

\* The items handed to a writer: two plain ones, one with a leading blank,
\* one with a line break inside.
ItemX == <<"x">>
ItemY == <<"y">>
ItemBlankX == <<" ", "x">>
ItemXBreakY == <<"x", NewLine, "y">>
Items == {ItemX, ItemY, ItemBlankX, ItemXBreakY}

\* The lists of items write is called with.
ItemLists == SeqsUpTo(Items, MaxItems)

RECURSIVE Splits(_)
\* The ways to cut a list into consecutive non-empty batches.
Splits(list) ==
    IF list = <<>>
    THEN {<<>>}
    ELSE UNION {{<<SubSeq(list, 1, k)>> \o rest : rest \in Splits(SubSeq(list, k + 1, Len(list)))} :
                   k \in 1..Len(list)}

\* What the output file holds before the writer opens it.
OldTexts == {<<>>, <<"o", NewLine>>}

\* Writer.write_mode
WriteModes == {"w", "a"}
\* Writer.exceptions: None, or a list of exception types.
ExceptionLists == {None, Some(<<>>), Some(<<"ValueError">>), Some(<<"ValueError", "KeyError">>)}
\* FileIO.transform_function of the writer: None, a function that puts a
\* prefix before the item, or a function that rejects some items.
WriterTransforms == {None, Some("prefix"), Some("check")}

\* The exception transform_function(item) raises, if it raises.
Raises(fn, item) ==
    IF fn = Some("check") /\ item = ItemY THEN Some("ValueError")
    ELSE IF fn = Some("check") /\ item = ItemBlankX THEN Some("KeyError")
    ELSE None

\* transform_function(item), when it does not raise.
Transform(fn, item) == IF fn = Some("prefix") THEN <<"p">> \o item ELSE item

RECURSIVE StripLeft(_)
StripLeft(s) == IF s # <<>> /\ s[1] \in Whitespace THEN StripLeft(Tail(s)) ELSE s

RECURSIVE StripRight(_)
StripRight(s) ==
    IF s # <<>> /\ s[Len(s)] \in Whitespace THEN StripRight(SubSeq(s, 1, Len(s) - 1)) ELSE s

\* str.strip()
Strip(s) == StripRight(StripLeft(s))

\* item_str = (item_str.strip() if self.trim else item_str) + "\n"
ItemStr(item, trim) == (IF trim THEN Strip(item) ELSE item) \o <<NewLine>>

\* open(path, mode): "w" truncates the file, "a" keeps what it holds.
Opened(text, mode) == IF mode = "w" THEN <<>> ELSE text

RECURSIVE ReadLines(_)
\* f.readlines(): the lines of the text, each with its line break.
ReadLines(text) ==
    IF text = <<>>
    THEN <<>>
    ELSE IF \E i \in DOMAIN text : text[i] = NewLine
         THEN LET k == CHOOSE i \in DOMAIN text :
                           text[i] = NewLine /\ \A j \in 1..(i - 1) : text[j] # NewLine
              IN  <<SubSeq(text, 1, k)>> \o ReadLines(SubSeq(text, k + 1, Len(text)))
         ELSE <<text>>

\* Reader.read() without a transform function.
ReadItems(text, trim) ==
    LET lines == ReadLines(text)
    IN  IF trim THEN [i \in DOMAIN lines |-> Strip(lines[i])] ELSE lines

\* tuple(*self.exceptions): the empty tuple for an empty list; TypeError
\* (None here) for a list of exception types, since a type is not iterable
\* and tuple takes one argument at most.
TupleOf(list) == IF list = <<>> THEN Some(<<>>) ELSE None

\* The except clause of write, for an exception of type exc: whether a
\* warning is logged and what is raised (None: the loop continues).
Handler(exceptions, exc) ==
    IF exceptions.none
    THEN [warn |-> FALSE, raise |-> None]
    ELSE LET classes == TupleOf(exceptions.val)
         IN  IF classes.none
             THEN [warn |-> FALSE, raise |-> Some("TypeError")]
             ELSE [warn |-> \E i \in DOMAIN classes.val : classes.val[i] = exc,
                   raise |-> Some(exc)]

\* The mode write opens the file with: write_mode or self.write_mode.
WriteModeOf(cfg, argument) == IF argument.none THEN cfg.write_mode ELSE argument.val

\* ---- Writer(...).write(items) ----
WriteCall ==
    /\ wpc = "idle"
    /\ \E mode \in WriteModes, trim \in BOOLEAN, fn \in WriterTransforms,
          ex \in ExceptionLists, list \in ItemLists, old \in OldTexts :
         /\ writer' = [write_mode |-> mode, trim |-> trim, transform_function |-> fn,
                       exceptions |-> ex]
         /\ batches' = <<list>>
         /\ previous' = old
         /\ fileText' = Opened(old, WriteModeOf(writer', None))
    /\ inBatches' = FALSE
    /\ bi' = 1
    /\ pos' = 1
    /\ wpc' = "writing"
    /\ UNCHANGED <<numberOfItems, raisedExc, warnings, written, readBack>>
    /\ UNCHANGED <<fetchVars, queryVars, validatorVars, tempVars>>

\* ---- Writer(...).write_in_batches(batches): create_output_file() ----
WriteInBatchesCall ==
    /\ wpc = "idle"
    /\ \E mode \in WriteModes, trim \in BOOLEAN, fn \in WriterTransforms,
          ex \in ExceptionLists, list \in ItemLists, old \in OldTexts :
         /\ writer' = [write_mode |-> mode, trim |-> trim, transform_function |-> fn,
                       exceptions |-> ex]
         /\ \E split \in Splits(list) :
              /\ batches' = split
              /\ wpc' = IF split = <<>> THEN "returned" ELSE "open"
         /\ previous' = old
         /\ fileText' = Opened(old, mode)
    /\ inBatches' = TRUE
    /\ bi' = 1
    /\ pos' = 1
    /\ UNCHANGED <<numberOfItems, raisedExc, warnings, written, readBack>>
    /\ UNCHANGED <<fetchVars, queryVars, validatorVars, tempVars>>

\* self.write(batch, write_mode="a"): the file is opened again.
OpenBatch ==
    /\ wpc = "open"
    /\ fileText' = Opened(fileText, WriteModeOf(writer, Some("a")))
    /\ pos' = 1
    /\ wpc' = "writing"
    /\ UNCHANGED <<writer, batches, inBatches, bi, previous, numberOfItems, raisedExc,
                   warnings, written, readBack>>
    /\ UNCHANGED <<fetchVars, queryVars, validatorVars, tempVars>>

\* One pass of `for item in items`, for an item that is written.
WriteItem ==
    /\ wpc = "writing"
    /\ pos <= Len(batches[bi])
    /\ LET item == batches[bi][pos]
       IN  /\ Raises(writer.transform_function, item).none
           /\ fileText' = fileText \o ItemStr(Transform(writer.transform_function, item),
                                              writer.trim)
           /\ written' = Append(written, Transform(writer.transform_function, item))
    /\ numberOfItems' = numberOfItems + 1
    /\ pos' = pos + 1
    /\ UNCHANGED <<wpc, writer, batches, inBatches, bi, previous, raisedExc, warnings, readBack>>
    /\ UNCHANGED <<fetchVars, queryVars, validatorVars, tempVars>>

\* One pass of `for item in items`, for an item whose processing raises.
WriteItemRaises ==
    /\ wpc = "writing"
    /\ pos <= Len(batches[bi])
    /\ LET exc == Raises(writer.transform_function, batches[bi][pos])
       IN  /\ ~exc.none
           /\ LET h == Handler(writer.exceptions, exc.val)
              IN  IF h.raise.none
                  THEN /\ pos' = pos + 1
                       /\ UNCHANGED <<wpc, raisedExc, warnings>>
                  ELSE /\ wpc' = "raised"
                       /\ raisedExc' = h.raise
                       /\ warnings' = IF h.warn THEN warnings + 1 ELSE warnings
                       /\ UNCHANGED pos
    /\ UNCHANGED <<writer, batches, inBatches, bi, fileText, previous, numberOfItems,
                   written, readBack>>
    /\ UNCHANGED <<fetchVars, queryVars, validatorVars, tempVars>>

\* The loop is through: write returns number_of_items; write_in_batches adds
\* it up and takes the next batch.
WriteReturn ==
    /\ wpc = "writing"
    /\ pos > Len(batches[bi])
    /\ IF bi < Len(batches)
       THEN /\ bi' = bi + 1
            /\ wpc' = "open"
       ELSE /\ wpc' = "returned"
            /\ UNCHANGED bi
    /\ UNCHANGED <<writer, batches, inBatches, pos, fileText, previous, numberOfItems,
                   raisedExc, warnings, written, readBack>>
    /\ UNCHANGED <<fetchVars, queryVars, validatorVars, tempVars>>

\* ---- Reader(input_filepath=...).read() on the file just written ----
Read ==
    /\ wpc \in {"returned", "raised"}
    /\ \E trim \in BOOLEAN :
         readBack' = [trim |-> trim, items |-> ReadItems(fileText, trim)]
    /\ wpc' = IF wpc = "returned" THEN "read" ELSE "readAfterRaise"
    /\ UNCHANGED <<writer, batches, inBatches, bi, pos, fileText, previous, numberOfItems,
                   raisedExc, warnings, written>>
    /\ UNCHANGED <<fetchVars, queryVars, validatorVars, tempVars>>

NextWriter ==
    \/ WriteCall
    \/ WriteInBatchesCall
    \/ OpenBatch
    \/ WriteItem
    \/ WriteItemRaises
    \/ WriteReturn
    \/ Read

SpecWriter == Init /\ [][NextWriter]_vars

(***************************************************************************)
(* TempDirectory.  A path is the sequence of its components; tempdir is    *)
(* the process-global tempfile.tempdir.                                    *)
(***************************************************************************)
\* The directory tempfile falls back to when tempfile.tempdir is None.
PlatformDefault == <<"tmp">>
\* The values TempDirectory.temp_directory takes.
ConfiguredDirectories == {<<"here">>, <<"there">>}
\* What code outside every context assigns to tempfile.tempdir.
AssignedTempdirs == {None, Some(<<"custom">>)}

\* tempfile.gettempdir(): the global, or the platform's directory when the
\* global is None.
GetTempDir(global) == IF global.none THEN PlatformDefault ELSE global.val

\* tempfile.TemporaryDirectory(dir=parent): a fresh directory in parent.
NewDirectory(parent, n) == Append(parent, ToString(n))

\* The path is inside the directory.
Under(path, directory) ==
    /\ Len(path) > Len(directory)
    /\ SubSeq(path, 1, Len(directory)) = directory

\* tempfile.tempdir = None, instead of the saved value.
Restored_Reset(context) == None

\* finally: tempfile.tempdir = _default_tempdir
Restored(context) == Some(context.default)

\* Code outside every context sets the global.
AssignTempdir ==
    /\ contexts = <<>>
    /\ \E value \in AssignedTempdirs :
         /\ value # tempdir
         /\ tempdir' = value
    /\ UNCHANGED <<contexts, entryValues, made, ndirs, lastExit>>
    /\ UNCHANGED <<fetchVars, queryVars, validatorVars, writerVars>>

\* with TempDirectory(temp_directory=d)() as path: the body is entered.
Enter ==
    /\ ndirs < MaxDirs
    /\ \E d \in ConfiguredDirectories :
         LET default == GetTempDir(tempdir)
             dir == NewDirectory(d, ndirs + 1)
         IN  /\ contexts' = Append(contexts, [temp_directory |-> d, default |-> default,
                                              dir |-> dir])
             /\ tempdir' = Some(dir)
    /\ entryValues' = Append(entryValues, GetTempDir(tempdir))
    /\ ndirs' = ndirs + 1
    /\ UNCHANGED <<made, lastExit>>
    /\ UNCHANGED <<fetchVars, queryVars, validatorVars, writerVars>>

\* Some code calls tempfile.TemporaryDirectory() with no arguments.
MakeTemporaryDirectory ==
    /\ ndirs < MaxDirs
    /\ made' = Append(made, [path |-> NewDirectory(GetTempDir(tempdir), ndirs + 1),
                             configured |-> IF contexts = <<>>
                                            THEN None
                                            ELSE Some(contexts[Len(contexts)].temp_directory)])
    /\ tempdir' = Some(GetTempDir(tempdir))
    /\ ndirs' = ndirs + 1
    /\ UNCHANGED <<contexts, entryValues, lastExit>>
    /\ UNCHANGED <<fetchVars, queryVars, validatorVars, writerVars>>

\* The innermost context is left: its directory is removed and the finally
\* clause runs.
Exit(how) ==
    /\ contexts # <<>>
    /\ tempdir' = Restored(contexts[Len(contexts)])
    /\ contexts' = SubSeq(contexts, 1, Len(contexts) - 1)
    /\ entryValues' = SubSeq(entryValues, 1, Len(entryValues) - 1)
    /\ lastExit' = Some([how |-> how, depth |-> Len(contexts),
                         before |-> entryValues[Len(entryValues)],
                         after |-> GetTempDir(tempdir')])
    /\ UNCHANGED <<made, ndirs>>
    /\ UNCHANGED <<fetchVars, queryVars, validatorVars, writerVars>>

\* The body of the with statement ends.
ExitNormally == Exit("normal")

\* The body of the with statement raises.
ExitByException == Exit("exception")

NextTemp ==
    \/ AssignTempdir
    \/ Enter
    \/ MakeTemporaryDirectory
    \/ ExitNormally
    \/ ExitByException

SpecTemp == Init /\ [][NextTemp]_vars

(***************************************************************************)
(* Properties of the fetch.                                                *)
(***************************************************************************)
Status(j) == jobs[j].status
JobsAt(i) == { j \in DOMAIN jobs : jobs[j].pos = i }
WritesOf(j) == { k \in DOMAIN writes : writes[k].job = j }
IsPath(r) == r # None
\* The poller has stopped polling job j.
Ended(j) == observed[j] # "pending"

\* C1: once the poller has ended on a job that reports DONE, it has returned
\* a file path and made exactly one write for it; once it has ended on a job
\* that reports an Error-class status, it has returned None and made no write.
C1_PollerResult ==
    \A j \in DOMAIN jobs :
        Ended(j) =>
            /\ Status(j) = "DONE" =>
                /\ Len(results) >= jobs[j].pos
                /\ IsPath(results[jobs[j].pos])
                /\ Cardinality(WritesOf(j)) = 1
            /\ Status(j) \in ErrorStatuses =>
                /\ Len(results) >= jobs[j].pos
                /\ results[jobs[j].pos] = None
                /\ WritesOf(j) = {}

\* The permanent-failure statuses as the specification lists them.
ClaimedFailureStatuses == {"CANCELLED", "FAILED", "KILLED", "DELETED", "INACTIVE"}
\* The permanent-failure statuses of the amended claim.
AmendedFailureStatuses == {"ERROR", "FAILED", "KILLED", "DELETED", "INACTIVE"}

\* The poller's step out of the first elif on a status of set S ends the
\* polling of the job with the failure marker recorded and nothing written.
FailsOn(S) ==
    (fpc = "read2" /\ Status(customisation) \in S /\ fpc' # fpc) =>
        /\ results' = Append(results, None)
        /\ observed'[customisation] = "Error"
        /\ writes' = writes
        /\ fpc' \in {"submit", "returned"}
        /\ idx' = idx + 1

Unmapped(s) == ~IsDone(s) /\ s \notin ErrorStatuses /\ s \notin ActiveStatuses

\* C3: when the status read in the last branch is in none of the three
\* classes, the poller's next step ends it with an error; it does not go
\* round the loop again.
C3_UnmappedStatusFails ==
    [][(fpc = "read3" /\ Unmapped(Status(customisation)) /\ fpc' # fpc)
          => fpc' = "raised"]_vars

\* C4: a call whose jobs all ended Done or Error is never cut short, and a
\* call that returned has one entry per item, in the items' order: the path
\* of the item's job if it ended Done, None if it ended Error.
C4_BatchResults ==
    /\ (fpc = "raised" => \E j \in DOMAIN jobs : Status(j) \notin ({"DONE"} \cup ErrorStatuses))
    /\ (fpc = "returned" =>
          /\ Len(results) = Len(batch)
          /\ \A i \in DOMAIN batch :
               \E j \in JobsAt(i) :
                 /\ jobs[j].product = batch[i]
                 /\ Status(j) = "DONE" =>
                      /\ IsPath(results[i])
                      /\ results[i].name \in { jobs[j].outputs[k] : k \in DOMAIN jobs[j].outputs }
                 /\ Status(j) \in ErrorStatuses => results[i] = None)

\* C5: at most one job is outstanding (created and not yet concluded) at any
\* time, and the job of item i+1 exists only once the jobs of items 1..i are
\* concluded Done or Error and their results recorded.
C5_OneOutstandingJob ==
    /\ Cardinality({ j \in DOMAIN jobs : ~Ended(j) }) <= 1
    /\ \A j \in DOMAIN jobs :
         /\ Len(results) >= jobs[j].pos - 1
         /\ \A k \in DOMAIN jobs :
              jobs[k].pos < jobs[j].pos => observed[k] \in {"Done", "Error"}

C5_Witness ==
    /\ Len(jobs) = 2
    /\ observed[1] = "Error"
    /\ observed[2] = "pending"
    /\ jobs[2].status = "RUNNING"
    /\ Len(results) = 1

\* C6: in one call no item ever has two jobs, every item with a result has
\* exactly one, and a job concluded Error is the only one of its item; the
\* result of an item is decided by the status of the job created for it in
\* this call, whatever the item's outcome was in earlier calls.
C6_NoRetryFreshJob ==
    /\ \A i \in DOMAIN batch :
         /\ Cardinality(JobsAt(i)) <= 1
         /\ (i <= Len(results) \/ fpc = "returned") => Cardinality(JobsAt(i)) = 1
    /\ \A j \in DOMAIN jobs :
         /\ observed[j] = "Error" =>
              /\ JobsAt(jobs[j].pos) = {j}
              /\ Status(j) \in ErrorStatuses
              /\ Len(results) >= jobs[j].pos
              /\ results[jobs[j].pos] = None
         /\ observed[j] = "Done" =>
              /\ Status(j) = "DONE"
              /\ Len(results) >= jobs[j].pos
              /\ IsPath(results[jobs[j].pos])
         /\ (Ended(j) /\ Status(j) = "DONE" /\ FilterNc(jobs[j].outputs) # <<>>)
              => observed[j] = "Done"
         /\ (Ended(j) /\ Status(j) \in ErrorStatuses) => observed[j] = "Error"

\* An item that failed in an earlier call has succeeded in this one.
C6_Witness ==
    \E j \in DOMAIN jobs :
        /\ archive[jobs[j].product] = "Error"
        /\ observed[j] = "Done"
        /\ IsPath(results[jobs[j].pos])

(***************************************************************************)
(* Properties of the batcher.                                              *)
(***************************************************************************)
\* The generator has run to its end without raising.
Exhausted == qpc = "done"
\* Window k covers instant t (half-open).
Covers(k, t) == windows[k].start <= t /\ t < windows[k].end

\* C7: for start < end, the windows handed to query() are non-empty, at most
\* one interval wide and each begins where the next one produced ends, the
\* first one produced ending at end; once the generator is exhausted they
\* reach start, every window but the last produced is a full interval wide,
\* and every instant of [start, end) lies in exactly one window.
C7_WindowsTile ==
    qargs.start < qargs.end =>
        /\ \A k \in DOMAIN windows :
             /\ windows[k].start < windows[k].end
             /\ windows[k].end - windows[k].start <= qargs.interval
             /\ windows[k].start >= qargs.start
             /\ windows[k].end = (IF k = 1 THEN qargs.end ELSE windows[k - 1].start)
        /\ Exhausted =>
             /\ windows # <<>>
             /\ windows[Len(windows)].start = qargs.start
             /\ \A k \in 1..(Len(windows) - 1) :
                  windows[k].end - windows[k].start = qargs.interval
             /\ \A t \in qargs.start..(qargs.end - 1) :
                  Cardinality({ k \in DOMAIN windows : Covers(k, t) }) = 1
             /\ \A k \in DOMAIN windows : \A t \in Times :
                  Covers(k, t) => (qargs.start <= t /\ t < qargs.end)

\* Several windows, the last one produced clipped at start.
C7_Witness ==
    /\ Exhausted
    /\ Len(windows) >= 2
    /\ windows[Len(windows)].start = qargs.start
    /\ windows[Len(windows)].end - windows[Len(windows)].start < qargs.interval

\* C8: for start < end and an interval of at least end - start, no second
\* window is ever produced, and the exhausted generator has produced the one
\* window [start, end).
C8_SingleWindow ==
    (qargs.start < qargs.end /\ qargs.interval >= qargs.end - qargs.start) =>
        /\ Len(windows) <= 1
        /\ Exhausted => windows = <<[start |-> qargs.start, end |-> qargs.end]>>

C8_Witness ==
    /\ Exhausted
    /\ qargs.start < qargs.end
    /\ qargs.interval > qargs.end - qargs.start
    /\ Len(yields) = 1

\* The generator's body has started.
Started == qpc \notin {"idle", "created"}

C10_InvalidRange ==
    (Started /\ qargs.start > qargs.end) =>
        /\ qpc = "raised"
        /\ requests = <<>>
        /\ windows = <<>>
        /\ yields = <<>>
        /\ ~ENABLED NextQuery

C10_Witness ==
    /\ qpc = "raised"
    /\ qargs.start > qargs.end
    /\ requests = <<>>

\* The search request the code sends for window k.
WindowRequest(k) ==
    [dtstart |-> windows[k].start, dtend |-> FloorToSnapshot(windows[k].end), kind |-> "window"]

\* C11: for a valid range the requests sent are the expected-total query,
\* first and once, followed by exactly one query per window produced, in the
\* windows' order, and every window queried has had its pair yielded; a
\* window query is sent only by the running generator after the consumer has
\* taken every pair yielded so far, and it adds one request, not more.
C11_OneQueryPerWindow ==
    /\ []((Started /\ ~StartAfterEnd(qargs.start, qargs.end)) =>
            /\ Len(requests) = 1 + Len(windows)
            /\ Len(responses) = Len(requests)
            /\ requests[1].kind = "total"
            /\ requests[1].dtstart = qargs.start
            /\ \A k \in DOMAIN windows : requests[k + 1] = WindowRequest(k)
            /\ Len(yields) = Len(windows))
    /\ [][(Len(requests) >= 1 /\ requests' # requests) =>
            /\ qpc = "batching"
            /\ Len(yields) = Len(requests) - 1
            /\ Len(requests') = Len(requests) + 1
            /\ Len(yields') = Len(yields) + 1
            /\ qpc' = "yielded"]_vars

\* Three windows queried, the third pair not yet taken by the consumer.
C11_Witness ==
    /\ qpc = "yielded"
    /\ Len(windows) = 3
    /\ Len(requests) = 4
    /\ requests[4].kind = "window"

RECURSIVE SumCounts(_)
\* The sum of the counts of a sequence of yielded pairs.
SumCounts(ys) == IF ys = <<>> THEN 0 ELSE ys[1].count + SumCounts(Tail(ys))

\* C12: for a valid range the generator never raises and is never stopped
\* short of the range, whatever the expected total and the counts are: each
\* pair yielded is the window with the count the catalog reported for it, the
\* generator can always take its next step, the exhausted generator has
\* yielded a pair for every window of the range, and the warning is logged
\* only at exhaustion, exactly when the sum of the counts differs from the
\* expected total.
C12_TotalNeverGates ==
    (Started /\ ~StartAfterEnd(qargs.start, qargs.end)) =>
        /\ qpc # "raised"
        /\ expectedTotal = responses[1]
        /\ \A k \in DOMAIN yields :
             /\ k <= Len(windows) /\ k + 1 <= Len(responses)
             /\ yields[k] = [start |-> windows[k].start, end |-> windows[k].end,
                             count |-> responses[k + 1]]
        /\ warned => Exhausted
        /\ qpc = "batching" =>
             IF curEnd > qargs.start THEN ENABLED NextWindow ELSE ENABLED Finish
        /\ Exhausted =>
             /\ Len(yields) = Len(windows)
             /\ warned = (expectedTotal # SumCounts(yields))
             /\ qargs.start < qargs.end =>
                  /\ yields # <<>>
                  /\ yields[1].end = qargs.end
                  /\ yields[Len(yields)].start = qargs.start

\* A mismatch: every pair was yielded and the warning logged.
C12_Witness ==
    /\ Exhausted
    /\ warned
    /\ Len(yields) >= 2
    /\ expectedTotal = 0
    /\ SumCounts(yields) >= 1

(***************************************************************************)
(* Properties of the validator.                                            *)
(***************************************************************************)
\* find_missing_files has returned to the running verify call.
MissingReturned == vpc \in {"corrupted", "pool", "returned", "raised"}

\* The verify call has returned its tuple.
VerifyReturned == vpc = "returned"

\* { t(f) : f in C } for the arguments the validator was built with.
Transformed ==
    IF kwargs.transform_function.none
    THEN {filepaths[i] : i \in DOMAIN filepaths}
    ELSE {Parse(filepaths[i]) : i \in DOMAIN filepaths}

\* C13: for every reference R the validator was given, every list of
\* candidates and every transform, find_missing_files returns the set
\* R minus the transformed candidates.
C13_MissingIsDifference ==
    (MissingReturned /\ ~kwargs.reference.none) =>
        missing = Some(kwargs.reference.val \ Transformed)

\* The sizes on disk are those the last verify call read.
SizesAsRead == resized => again

\* |1 - s/n| > tolerance in exact arithmetic, for n > 0 and the tolerance
\* t/100: |n - s| * 100 > t * n.
ExceedsTolerance(s, n, t) ==
    (IF n >= s THEN n - s ELSE s - n) * 100 > t * n

\* C14: with a nominal size n > 0, the corrupted set is exactly the candidate
\* files whose size s has |1 - s/n| > tolerance, strictly: a file deviating by
\* exactly the tolerance (1010 bytes for n = 1000 and 0.01) is not in it.
C14_CorruptedIffExceeds ==
    (/\ VerifyReturned
     /\ SizesAsRead
     /\ ~kwargs.nominal_size.none
     /\ kwargs.nominal_size.val > 0) =>
        outcome.corrupted =
            Some({f \in {filepaths[i] : i \in DOMAIN filepaths} :
                    ExceedsTolerance(sizeOnDisk[f], kwargs.nominal_size.val, kwargs.tolerance)})

\* C15: in the tuple verify returns, the missing half is None exactly when
\* no reference was given and the corrupted half is None exactly when no
\* nominal size was given, whatever the other half and the candidates are.
C15_NullExactlyWhenAbsent ==
    VerifyReturned =>
        /\ (outcome.missing = None) = kwargs.reference.none
        /\ (outcome.corrupted = None) = kwargs.nominal_size.none

\* The verify call has ended, with a tuple or with an exception.
VerifyEnded == vpc \in {"returned", "raised"}

\* C16: a verify call on a validator that was given a reference, empty or
\* not, returns a set as its missing half, and one that was given a nominal
\* size returns a set as its corrupted half, for every list of candidates.
C16_SuppliedGivesSet ==
    VerifyEnded =>
        /\ ~kwargs.reference.none =>
             /\ VerifyReturned
             /\ ~outcome.missing.none
        /\ ~kwargs.nominal_size.none =>
             /\ VerifyReturned
             /\ ~outcome.corrupted.none

\* C17: a construction with a negative tolerance is refused and leaves no
\* validator behind; a construction with a tolerance of 0 or more yields a
\* validator with that tolerance; so every validator there is, and every
\* verify call that runs, has a tolerance of 0 or more.
C17_NegativeToleranceRefused ==
    vpc # "none" =>
        /\ kwargs.tolerance < 0 => (vpc = "refused" /\ config = None)
        /\ kwargs.tolerance >= 0 =>
             /\ vpc # "refused"
             /\ config # None
             /\ config.tolerance = kwargs.tolerance
        /\ config # None => config.tolerance >= 0

\* A construction with a negative tolerance was attempted.
C17_Witness ==
    /\ vpc = "refused"
    /\ kwargs.tolerance < 0

\* The nominal size and the tolerance allow the size comparison.
Comparable ==
    /\ ~kwargs.nominal_size.none
    /\ kwargs.nominal_size.val > 0

\* C18: whatever the number of processes and the order in which the workers
\* finished, every size gathered is the size of the file at its position,
\* and the corrupted set is the set of candidates that is_corrupted holds
\* for on their own size.
C18_SizesPairedByPosition ==
    /\ vpc = "pool" =>
         \A k \in DOMAIN completed :
            /\ completed[k].pos \in DOMAIN filepaths
            /\ completed[k].size = sizeOnDisk[filepaths[completed[k].pos]]
    /\ (VerifyReturned /\ SizesAsRead /\ Comparable) =>
         outcome.corrupted =
            Some({f \in {filepaths[i] : i \in DOMAIN filepaths} :
                    IsCorruptedTable[kwargs.nominal_size.val][kwargs.tolerance][sizeOnDisk[f]]})

\* Two workers, the second file's size arrived first, and only the second
\* file is corrupted.
C18_Witness ==
    /\ VerifyReturned
    /\ Comparable
    /\ config.number_of_processes = 2
    /\ Len(filepaths) = 2
    /\ Len(completed) = 2
    /\ completed[1].pos = 2
    /\ sizeOnDisk[filepaths[1]] = 1005
    /\ sizeOnDisk[filepaths[2]] = 1020
    /\ outcome.corrupted = Some({filepaths[2]})

\* A verify call is running.
VerifyRunning == vpc \in {"missing", "corrupted", "pool"}

\* C19: no step of a verify call changes the filepaths it was called with or
\* a field of the validator, which stays as it was constructed, and both
\* find_missing_files and find_corrupted_files received the filepaths
\* verify was called with.
C19_VerifyLeavesInputs ==
    /\ [][VerifyRunning => (filepaths' = filepaths /\ config' = config /\ kwargs' = kwargs)]_vars
    /\ [](vpc \notin {"none", "refused"} => config = kwargs)
    /\ [](VerifyEnded => (seenMissing = filepaths /\ seenCorrupted = filepaths))

\* Both halves were computed on two candidates.
C19_Witness ==
    /\ VerifyReturned
    /\ Len(filepaths) = 2
    /\ ~outcome.missing.none
    /\ ~outcome.corrupted.none
    /\ seenMissing = filepaths
    /\ seenCorrupted = filepaths

\* C20: a second verify call on the same validator with the same filepaths,
\* made while no file has changed size, ends as the first one did: with the
\* same (missing, corrupted) tuple, or with the same exception.
C20_VerifyTwiceSame ==
    (again /\ VerifyEnded /\ ~resized) => outcome = firstOutcome

\* The second call returned two non-empty sets, its workers having finished
\* out of order.
C20_Witness ==
    /\ again
    /\ VerifyReturned
    /\ ~resized
    /\ ~outcome.missing.none
    /\ outcome.missing.val # {}
    /\ ~outcome.corrupted.none
    /\ outcome.corrupted.val # {}
    /\ Len(completed) = 2
    /\ completed[1].pos = 2

(***************************************************************************)
(* Further properties of the fetch.                                        *)
(***************************************************************************)
\* C24: a pass of the polling loop that reaches its last test without
\* returning goes to sleep before the status is examined again, so the loop
\* is only ever re-entered from the sleep.
C24_SleepBetweenPolls ==
    [][/\ (fpc = "read3" /\ fpc' # fpc) => fpc' = "sleeping"
       /\ (fpc' = "read1" /\ fpc # "read1") => fpc \in {"submit", "sleeping"}]_vars

\* The steps of fetch_products and fetch_product, without the caller's and
\* the remote service's.
PollerStep ==
    \/ NewCustomisation
    \/ PollDone
    \/ PollDoneNoOutput
    \/ PollNotDone
    \/ PollError
    \/ PollNotError
    \/ PollActive
    \/ WakeUp
    \/ PollUnmatched

\* The fetch, with a poller that keeps running while it has a step to take.
SpecFair == Spec /\ WF_vars(PollerStep)

\* The job reports Done or one of the Error statuses.
ReportsTerminal(j) == Status(j) = "DONE" \/ Status(j) \in ErrorStatuses

\* C25: a job that reports Done or Error is eventually concluded with a
\* returned path or None; the poller concludes a job only on such a status
\* and leaves a concluded job alone; nothing else ends the polling.
C25_TerminalEndsPolling ==
    /\ \A j \in 1..MaxBatch :
         (j \in DOMAIN jobs /\ ReportsTerminal(j))
             ~> (j \in DOMAIN jobs /\ observed[j] \in {"Done", "Error"})
    /\ [][\A j \in DOMAIN jobs :
            (j \in DOMAIN observed' /\ ~Ended(j) /\ observed'[j] # observed[j])
                => (ReportsTerminal(j) /\ observed'[j] \in {"Done", "Error"})]_vars
    /\ [](fpc \in {"read1", "read2", "read3", "sleeping"} => ~Ended(customisation))

\* The entries of the returned list that are paths.
PathEntries == {i \in DOMAIN results : IsPath(results[i])}

\* C26: when fetch_products has returned, there are as many writes as paths
\* in the list, every path lies in the output directory and names a file
\* written for the job of its item; and a job that reports DONE, once the
\* poller is through with it, has a path in the list, also when it lists no
\* matching output.
C26_WritesMatchResults ==
    /\ fpc = "returned" =>
         /\ Len(writes) = Cardinality(PathEntries)
         /\ \A i \in PathEntries :
              /\ results[i].dir = OutputDirectory
              /\ \E k \in DOMAIN writes :
                   /\ writes[k].path = results[i]
                   /\ jobs[writes[k].job].pos = i
    /\ \A j \in DOMAIN jobs :
         (Ended(j) /\ Status(j) = "DONE") =>
             /\ Len(results) >= jobs[j].pos
             /\ IsPath(results[jobs[j].pos])

\* C27: for every nominal size the constructor accepts, 0 included, the
\* corruption check of a verify call does not raise, and the call returns a
\* set as its corrupted half.
C27_CorruptionCheckNeverRaises ==
    (vpc \notin {"none", "refused"} /\ ~kwargs.nominal_size.none) =>
        /\ vpc # "raised"
        /\ VerifyReturned => ~outcome.corrupted.none

(***************************************************************************)
(* Properties of the Writer and the Reader.                                *)
(***************************************************************************)
\* The item the loop of write is about to process, and the exception its
\* processing raises.
AtItem == wpc = "writing" /\ pos <= Len(batches[bi])
PendingException == Raises(writer.transform_function, batches[bi][pos])
Listed(exc) == \E i \in DOMAIN writer.exceptions.val : writer.exceptions.val[i] = exc
WriteEnded == wpc \in {"returned", "read"}

\* C22: write filters exceptions item by item.  With exceptions = None an
\* exception raised while an item is processed is caught and the loop goes
\* on with the next item; with a non-empty list an exception of a listed
\* type is caught and logged as a warning and any other exception
\* propagates; with an empty list the exception propagates.  The number
\* write returns is the number of items written to the file.
C22_ExceptionFilter ==
    /\ [][(AtItem /\ ~PendingException.none /\ writerVars' # writerVars) =>
            IF writer.exceptions.none
            THEN wpc' = "writing" /\ pos' = pos + 1
            ELSE IF Listed(PendingException.val)
                 THEN wpc' # "raised" /\ warnings' = warnings + 1
                 ELSE wpc' = "raised" /\ raisedExc' = PendingException]_vars
    /\ [](WriteEnded => numberOfItems = Len(written))

RECURSIVE Flatten(_)
\* The items of all batches, in order.
Flatten(bs) == IF bs = <<>> THEN <<>> ELSE Head(bs) \o Flatten(Tail(bs))

\* The items handed to the call, as the writer's transform function leaves
\* them.
ItemsGiven ==
    LET given == Flatten(batches)
    IN  [i \in DOMAIN given |-> Transform(writer.transform_function, given[i])]

\* No item begins or ends with whitespace, and the transform function
\* accepts every item.
CleanItems ==
    LET given == Flatten(batches)
    IN  \A i \in DOMAIN given :
            /\ Strip(given[i]) = given[i]
            /\ Raises(writer.transform_function, given[i]).none

\* C21: round trip.  A writer that overwrites (write_mode "w") is given
\* items without leading or trailing whitespace, by write or by
\* write_in_batches over any split into batches, whatever the file held
\* before; a reader that trims then reads the file back as the same items in
\* the same order, after the writer's transform.
C21_RoundTrip ==
    (wpc = "read" /\ writer.write_mode = "w" /\ readBack.trim /\ CleanItems) =>
        readBack.items = ItemsGiven

(***************************************************************************)
(* Properties of TempDirectory.                                            *)
(***************************************************************************)
\* A context was left while another one was still active.
NestedExit(how) == ~lastExit.none /\ lastExit.val.how = how /\ lastExit.val.depth > 1

\* C23: TempDirectory overrides the global temporary directory for the
\* time of the context.  Every temporary directory that code inside a
\* context creates lies under the directory the innermost active context
\* was configured with, and so does gettempdir(); after a context is left,
\* normally or by an exception, nested or not, gettempdir() gives what it
\* gave before the context was entered.
C23_ScopedOverride ==
    /\ \A i \in DOMAIN made :
           ~made[i].configured.none => Under(made[i].path, made[i].configured.val)
    /\ contexts # <<>> => Under(GetTempDir(tempdir), contexts[Len(contexts)].temp_directory)
    /\ ~lastExit.none => lastExit.val.after = lastExit.val.before

\* An inner context was left by an exception while the outer one stays
\* active, and code inside the outer context then created a temporary
\* directory.
C23_Witness ==
    /\ NestedExit("exception")
    /\ Len(contexts) = 1
    /\ made # <<>>
    /\ ~made[Len(made)].configured.none

====
